---- MODULE Spec2Model ----
(***************************************************************************)
(* A model of the String Resource Generator (src/app.py): the             *)
(* reconciliation of the identifier sheet against the translation sheet   *)
(* (generate_string_files), the two converters back to a sheet            *)
(* (xml_to_sheet, strings_to_sheet) and the parts of main that validate   *)
(* the input and report a failed conversion.                              *)
(*                                                                         *)
(* Text is a sequence of one-character strings, so that formatting,       *)
(* joining, splitting, stripping and parsing are computed character by    *)
(* character.  A missing spreadsheet cell (pandas' NaN, Python's None) is  *)
(* the one-element sequence NaN, which is no text.                         *)
(***************************************************************************)
EXTENDS Integers, Sequences, FiniteSets, TLC

VARIABLES
    android_df,      \* the identifier sheet: a sequence of rows
    translation_df,  \* the translation sheet: its columns and its rows
    start_row,       \* generate_string_files' arguments
    end_row,
    platform,        \* "android" | "ios" | "" (not called yet)
    pc,              \* where the program is
    languages,       \* translation_df.columns[1:]
    li,              \* position of `for lang in languages`
    i,               \* the row loop's variable
    output_lines,    \* the lines of the language being generated
    outputs,         \* the dict returned: a sequence of [key, val] in insertion order
    warnings,        \* generate_string_files' warnings list
    st_warning,      \* what st.warning showed after generation
    uploaded_file,   \* the file given to the converter: its name's suffix and its text
    k,               \* position of `for line in strings_file`
    data,            \* the converter's list of records
    sheet_data,      \* main's sheet_data: unbound, or the records returned
    ui               \* what main showed for the conversion

vars == <<android_df, translation_df, start_row, end_row, platform, pc,
          languages, li, i, output_lines, outputs, warnings, st_warning,
          uploaded_file, k, data, sheet_data, ui>>

genVars == <<languages, li, i, output_lines, outputs, warnings, st_warning>>
convVars == <<uploaded_file, k, data, sheet_data, ui>>
inputVars == <<android_df, translation_df, start_row, end_row>>

----------------------------------------------------------------------------
(* Bounds of the model *)

\* the identifier sheet has 1..MaxRows rows
MaxRows == 2

\* the translation sheet has 0..MaxTRows rows
MaxTRows == 2

\* the uploaded .strings file has 0..MaxLines lines
MaxLines == 2

----------------------------------------------------------------------------
(* Values *)

NaN == <<"NaN">>

Range(s) == {s[n] : n \in DOMAIN s}

Whitespace == {" ", "\n", "\t"}

\* pd.notna
notna(v) == v # NaN

\* str(v), and the conversion an f-string applies to a field
str(v) == IF v = NaN THEN <<"n", "a", "n">> ELSE v

\* pandas' ==, under which a missing value equals nothing
PdEq(a, b) == notna(a) /\ notna(b) /\ a = b

RECURSIVE lstrip(_, _)
lstrip(s, chars) ==
    IF s # <<>> /\ Head(s) \in chars THEN lstrip(Tail(s), chars) ELSE s

RECURSIVE rstrip(_, _)
rstrip(s, chars) ==
    IF s # <<>> /\ s[Len(s)] \in chars
    THEN rstrip(SubSeq(s, 1, Len(s) - 1), chars) ELSE s

\* str.strip(chars): every leading and trailing character of `chars` goes
strip(s, chars) == rstrip(lstrip(s, chars), chars)

RECURSIVE join(_, _)
join(sep, lines) ==
    IF lines = <<>> THEN <<>>
    ELSE IF Len(lines) = 1 THEN lines[1]
    ELSE lines[1] \o sep \o join(sep, Tail(lines))

\* the first place at or after n where sep occurs in s, 0 when there is none
RECURSIVE find(_, _, _)
find(s, sep, n) ==
    IF n + Len(sep) - 1 > Len(s) THEN 0
    ELSE IF SubSeq(s, n, n + Len(sep) - 1) = sep THEN n
    ELSE find(s, sep, n + 1)

\* str.split(sep): the parts between the occurrences of sep, left to right
RECURSIVE split(_, _)
split(s, sep) ==
    LET n == find(s, sep, 1)
    IN  IF n = 0 THEN <<s>>
        ELSE <<SubSeq(s, 1, n - 1)>> \o split(SubSeq(s, n + Len(sep), Len(s)), sep)

----------------------------------------------------------------------------
(* generate_string_files *)

\* translation_df.loc[translation_df['english_value'] == english_value, lang].values
LocValues(tdf, english_value, lang) ==
    LET hit(r) == PdEq(r["english_value"], english_value)
        sel == SelectSeq(tdf.rows, hit)
    IN  [n \in 1..Len(sel) |-> sel[n][lang]]

LastValue(vals) == vals[Len(vals)]

\* .values[0]
FirstValue(vals) == vals[1]

NotBlankNoStrip(translation_val) ==
    notna(translation_val) /\ str(translation_val) # <<>>

\* the test of line 154
NotBlank(translation_val) ==
    notna(translation_val) /\ strip(str(translation_val), Whitespace) # <<>>

Warning(kind, english_value, lang) ==
    [kind |-> kind, english_value |-> str(english_value), lang |-> lang]

\* Resolve with a lookup that found nothing treated as an empty translation
ResolveNoMatchAsEmpty(tdf, english_value, lang) ==
    LET vals == LocValues(tdf, english_value, lang)
    IN  IF vals # <<>> /\ NotBlank(FirstValue(vals))
        THEN [value |-> FirstValue(vals), warnings |-> <<>>]
        ELSE [value |-> english_value,
              warnings |-> <<Warning("Empty translation", english_value, lang)>>]

\* Resolve with the translation trimmed
ResolveTrimmed(tdf, english_value, lang) ==
    LET vals == LocValues(tdf, english_value, lang)
    IN  IF vals = <<>>
        THEN [value |-> english_value,
              warnings |-> <<Warning("No translation found", english_value, lang)>>]
        ELSE IF NotBlank(FirstValue(vals))
        THEN [value |-> strip(str(FirstValue(vals)), Whitespace), warnings |-> <<>>]
        ELSE [value |-> english_value,
              warnings |-> <<Warning("Empty translation", english_value, lang)>>]

\* lines 150-161: the value of one row in one language, and its warnings
Resolve(tdf, english_value, lang) ==
    LET vals == LocValues(tdf, english_value, lang)
    IN  IF vals = <<>>
        THEN \* .values[0] raises IndexError
             [value |-> english_value,
              warnings |-> <<Warning("No translation found", english_value, lang)>>]
        ELSE LET translation_val == FirstValue(vals)
             IN  IF NotBlank(translation_val)
                 THEN [value |-> translation_val, warnings |-> <<>>]
                 ELSE [value |-> english_value,
                       warnings |-> <<Warning("Empty translation", english_value, lang)>>]

ResourcesOpen == <<"<", "r", "e", "s", "o", "u", "r", "c", "e", "s", ">">>
ResourcesClose == <<"<", "/", "r", "e", "s", "o", "u", "r", "c", "e", "s", ">">>

\* f'    <string name="{string_name}">{value}</string>'
AndroidLine(string_name, value) ==
    <<" ", " ", " ", " ", "<", "s", "t", "r", "i", "n", "g", " ",
      "n", "a", "m", "e", "=", "\"">>
    \o str(string_name) \o <<"\"", ">">> \o str(value)
    \o <<"<", "/", "s", "t", "r", "i", "n", "g", ">">>

\* f'"{english_value}" = "{value}";'
IosLine(english_value, value) ==
    <<"\"">> \o str(english_value) \o <<"\"", " ", "=", " ", "\"">>
    \o str(value) \o <<"\"", ";">>

OutputLine(plat, string_name, english_value, value) ==
    IF plat = "android" THEN AndroidLine(string_name, value)
    ELSE IosLine(english_value, value)

\* translation_df.columns[1:]
ColumnsFromSecond(columns) == SubSeq(columns, 2, Len(columns))

\* a dict: outputs[key] = val
DictSet(d, key, val) ==
    IF \E n \in DOMAIN d : d[n].key = key
    THEN [n \in DOMAIN d |-> IF d[n].key = key THEN [key |-> key, val |-> val] ELSE d[n]]
    ELSE Append(d, [key |-> key, val |-> val])

DictKeys(d) == [n \in DOMAIN d |-> d[n].key]

DictGet(d, key) == d[CHOOSE n \in DOMAIN d : d[n].key = key].val

InRangeExclusive(n, start, end) == start <= n /\ n < end

\* range(start_row, end_row + 1)
InRange(n, start, end) == start <= n /\ n < end + 1

\* main, lines 28-36: the sheets' columns.  The identifier sheet is modelled
\* with its two required columns, so only the translation sheet can fail.
Validate ==
    /\ pc = "loaded"
    /\ pc' = IF \E n \in DOMAIN translation_df.columns :
                    translation_df.columns[n] = "english_value"
             THEN "ready" ELSE "schema_error"
    /\ UNCHANGED <<inputVars, platform, genVars, convVars>>

\* lines 134-137
Begin(plat) ==
    /\ pc = "ready"
    /\ platform' = plat
    /\ languages' = ColumnsFromSecond(translation_df.columns)
    /\ outputs' = <<>>
    /\ warnings' = <<>>
    /\ li' = 1
    /\ pc' = "for_lang"
    /\ UNCHANGED <<inputVars, i, output_lines, st_warning, convVars>>

\* lines 76-92
generate_android_xml == Begin("android")

\* lines 95-111
generate_ios_strings == Begin("ios")

\* lines 139-142: the next language
ForLang ==
    /\ pc = "for_lang"
    /\ li <= Len(languages)
    /\ output_lines' = IF platform = "android" THEN <<ResourcesOpen>> ELSE <<>>
    /\ i' = start_row
    /\ pc' = "for_row"
    /\ UNCHANGED <<inputVars, platform, languages, li, outputs, warnings,
                   st_warning, convVars>>

\* lines 144-166: one row of the range
ForRow ==
    /\ pc = "for_row"
    /\ InRange(i, start_row, end_row)
    /\ i < Len(android_df)
    /\ LET row == android_df[i + 1]
           lang == languages[li]
           res == Resolve(translation_df, row.english_value, lang)
       IN  /\ warnings' = warnings \o res.warnings
           /\ output_lines' =
                Append(output_lines,
                       OutputLine(platform, row.string_name, row.english_value,
                                  res.value))
    /\ i' = i + 1
    /\ UNCHANGED <<inputVars, platform, pc, languages, li, outputs, st_warning,
                   convVars>>

\* line 145: android_df.iloc[i] past the last row raises IndexError, which
\* nothing in generate_string_files catches
RowIndexError ==
    /\ pc = "for_row"
    /\ InRange(i, start_row, end_row)
    /\ i >= Len(android_df)
    /\ pc' = "raised"
    /\ UNCHANGED <<inputVars, platform, genVars, convVars>>

\* lines 168-171: the language's text
EndLang ==
    /\ pc = "for_row"
    /\ ~InRange(i, start_row, end_row)
    /\ LET lines == IF platform = "android"
                    THEN Append(output_lines, ResourcesClose) ELSE output_lines
       IN  outputs' = DictSet(outputs, languages[li], join(<<"\n">>, lines))
    /\ li' = li + 1
    /\ pc' = "for_lang"
    /\ UNCHANGED <<inputVars, platform, languages, i, output_lines, warnings,
                   st_warning, convVars>>

\* lines 173-176
Return ==
    /\ pc = "for_lang"
    /\ li > Len(languages)
    /\ st_warning' = warnings
    /\ pc' = "returned"
    /\ UNCHANGED <<inputVars, platform, languages, li, i, output_lines, outputs,
                   warnings, convVars>>

----------------------------------------------------------------------------
(* main's conversion of an uploaded file, and strings_to_sheet *)

Unbound == [bound |-> FALSE, rows |-> <<>>]

NotConverted ==
    /\ k = 0
    /\ data = <<>>
    /\ sheet_data = Unbound
    /\ ui = "idle"

\* iterating a file: its lines, each with the line break that ends it
RECURSIVE FileLines(_)
FileLines(text) ==
    LET n == find(text, <<"\n">>, 1)
    IN  IF text = <<>> THEN <<>>
        ELSE IF n = 0 THEN <<text>>
        ELSE <<SubSeq(text, 1, n)>> \o FileLines(SubSeq(text, n + 1, Len(text)))

\* line 207: line.decode("utf-8").strip()
StrippedLine(n) == strip(FileLines(uploaded_file.text)[n], Whitespace)

\* line 208: blank lines and comment lines are passed over
Ignored(line) == line = <<>> \/ (Len(line) >= 2 /\ SubSeq(line, 1, 2) = <<"/", "/">>)

Separator == <<" ", "=", " ">>

\* main, lines 62-67: the button, for a file that is not .xml
ConvertStrings ==
    /\ pc = "uploaded"
    /\ uploaded_file.suffix # "xml"
    /\ data' = <<>>
    /\ k' = 1
    /\ pc' = "for_line"
    /\ UNCHANGED <<inputVars, platform, genVars, uploaded_file, sheet_data, ui>>

\* lines 206-208: a line that is blank or a comment
ForLineIgnored ==
    /\ pc = "for_line"
    /\ k <= Len(FileLines(uploaded_file.text))
    /\ Ignored(StrippedLine(k))
    /\ k' = k + 1
    /\ UNCHANGED <<inputVars, platform, genVars, uploaded_file, pc, data,
                   sheet_data, ui>>

\* lines 209-212: a line that splits in two
ForLineRecord ==
    /\ pc = "for_line"
    /\ k <= Len(FileLines(uploaded_file.text))
    /\ ~Ignored(StrippedLine(k))
    /\ LET parts == split(StrippedLine(k), Separator)
       IN  /\ Len(parts) = 2
           /\ data' = Append(data, [string_name |-> strip(parts[1], {"\""}),
                                    value |-> strip(parts[2], {"\"", ";"})])
    /\ k' = k + 1
    /\ UNCHANGED <<inputVars, platform, genVars, uploaded_file, pc, sheet_data, ui>>

\* line 209: unpacking anything but two parts raises ValueError
ForLineValueError ==
    /\ pc = "for_line"
    /\ k <= Len(FileLines(uploaded_file.text))
    /\ ~Ignored(StrippedLine(k))
    /\ Len(split(StrippedLine(k), Separator)) # 2
    /\ pc' = "conversion_raised"
    /\ UNCHANGED <<inputVars, platform, genVars, convVars>>

\* line 213, and the assignment of line 67
ReturnSheet ==
    /\ pc = "for_line"
    /\ k > Len(FileLines(uploaded_file.text))
    /\ sheet_data' = [bound |-> TRUE, rows |-> data]
    /\ pc' = "converted"
    /\ UNCHANGED <<inputVars, platform, genVars, uploaded_file, k, data, ui>>

\* main, lines 69-72
ShowSheet ==
    /\ pc = "converted"
    /\ ui' = IF sheet_data.rows # <<>> THEN "download" ELSE "warning"
    /\ pc' = "shown"
    /\ UNCHANGED <<inputVars, platform, genVars, uploaded_file, k, data, sheet_data>>

\* main, lines 73-74
ShowError ==
    /\ pc = "conversion_raised"
    /\ ui' = "error"
    /\ pc' = "shown"
    /\ UNCHANGED <<inputVars, platform, genVars, uploaded_file, k, data, sheet_data>>

----------------------------------------------------------------------------
(* xml_to_sheet: ElementTree's parse of the text, then the string elements *)

Quote == "\""

NameChars ==
    { "a", "b", "c", "d", "e", "f", "g", "h", "i", "j", "k", "l", "m",
      "n", "o", "p", "q", "r", "s", "t", "u", "v", "w", "x", "y", "z",
      "A", "B", "C", "D", "E", "F", "G", "H", "I", "J", "K", "L", "M",
      "N", "O", "P", "Q", "R", "S", "T", "U", "V", "W", "X", "Y", "Z",
      "0", "1", "2", "3", "4", "5", "6", "7", "8", "9", "_", "-", ".",
      ":" }

\* the character at p, "" past the end
At(t, p) == IF p >= 1 /\ p <= Len(t) THEN t[p] ELSE ""

\* the first place at or after p that holds no name character
RECURSIVE NameEnd(_, _)
NameEnd(t, p) == IF At(t, p) \in NameChars THEN NameEnd(t, p + 1) ELSE p

\* the first place at or after p that holds no white space
RECURSIVE SkipSpace(_, _)
SkipSpace(t, p) == IF At(t, p) \in Whitespace THEN SkipSpace(t, p + 1) ELSE p

NotWellFormed == [ok |-> FALSE]

\* the character a predefined entity stands for, "" for any other name
PredefinedEntity(name) ==
    CASE name = <<"a", "m", "p">> -> "&"
      [] name = <<"l", "t">> -> "<"
      [] name = <<"g", "t">> -> ">"
      [] name = <<"q", "u", "o", "t">> -> Quote
      [] name = <<"a", "p", "o", "s">> -> "'"
      [] OTHER -> ""

\* the reference from the & at p to the place e that ends its name
ReferenceNamed(t, p, e) ==
    IF At(t, e) = ";" /\ PredefinedEntity(SubSeq(t, p + 1, e - 1)) # ""
    THEN [ok |-> TRUE, char |-> PredefinedEntity(SubSeq(t, p + 1, e - 1)),
          next |-> e + 1]
    ELSE NotWellFormed

\* the reference that starts with the & at p
Reference(t, p) == ReferenceNamed(t, p, NameEnd(t, p + 1))

RECURSIVE AttValue(_, _, _, _)
RECURSIVE Attributes(_, _, _)
RECURSIVE Element(_, _)
RECURSIVE Content(_, _, _, _, _)

AttValueAfterReference(t, r, q, acc) ==
    IF r.ok THEN AttValue(t, r.next, q, Append(acc, r.char)) ELSE NotWellFormed

\* an attribute's value from p to the closing quote q: no <, references
\* replaced, white space normalised
AttValue(t, p, q, acc) ==
    IF At(t, p) = "" \/ At(t, p) = "<" THEN NotWellFormed
    ELSE IF At(t, p) = q THEN [ok |-> TRUE, value |-> acc, next |-> p + 1]
    ELSE IF At(t, p) = "&" THEN AttValueAfterReference(t, Reference(t, p), q, acc)
    ELSE AttValue(t, p + 1, q,
                  Append(acc, IF At(t, p) \in Whitespace THEN " " ELSE At(t, p)))

AttributeValued(t, name, v, attrs) ==
    IF v.ok
    THEN Attributes(t, v.next, Append(attrs, [name |-> name, value |-> v.value]))
    ELSE NotWellFormed

AttributeQuoted(t, name, open, attrs) ==
    IF At(t, open) \in {Quote, "'"}
    THEN AttributeValued(t, name, AttValue(t, open + 1, At(t, open), <<>>), attrs)
    ELSE NotWellFormed

AttributeEq(t, name, eq, attrs) ==
    IF At(t, eq) = "="
    THEN AttributeQuoted(t, name, SkipSpace(t, eq + 1), attrs)
    ELSE NotWellFormed

\* the attribute whose name runs from q to e: a name, not one seen already
AttributeNamed(t, q, e, attrs) ==
    IF e = q \/ \E n \in DOMAIN attrs : attrs[n].name = SubSeq(t, q, e - 1)
    THEN NotWellFormed
    ELSE AttributeEq(t, SubSeq(t, q, e - 1), SkipSpace(t, e), attrs)

\* p, then white space to q: the end of the start tag, or white space and
\* one more attribute
AttributesFrom(t, p, q, attrs) ==
    IF At(t, q) = ">"
    THEN [ok |-> TRUE, attrs |-> attrs, empty |-> FALSE, next |-> q + 1]
    ELSE IF At(t, q) = "/" /\ At(t, q + 1) = ">"
    THEN [ok |-> TRUE, attrs |-> attrs, empty |-> TRUE, next |-> q + 2]
    ELSE IF q = p THEN NotWellFormed
    ELSE AttributeNamed(t, q, NameEnd(t, q), attrs)

\* a start tag's attributes from p to its > or />
Attributes(t, p, attrs) == AttributesFrom(t, p, SkipSpace(t, p), attrs)

\* the end tag whose name runs from p + 2 to e must close `tag`
EndTag(t, p, e, tag, text, children) ==
    IF SubSeq(t, p + 2, e - 1) = tag /\ At(t, SkipSpace(t, e)) = ">"
    THEN [ok |-> TRUE, text |-> text, children |-> children,
          next |-> SkipSpace(t, e) + 1]
    ELSE NotWellFormed

ContentAfterChild(t, tag, text, children, child) ==
    IF child.ok
    THEN Content(t, child.next, tag, text, Append(children, child))
    ELSE NotWellFormed

ContentAfterReference(t, tag, text, children, r) ==
    IF r.ok
    THEN Content(t, r.next, tag,
                 IF children = <<>> THEN Append(text, r.char) ELSE text, children)
    ELSE NotWellFormed

\* the content of element `tag` from p to its end tag: the text before the
\* first child, and the children
Content(t, p, tag, text, children) ==
    IF At(t, p) = "" THEN NotWellFormed
    ELSE IF At(t, p) = "<" /\ At(t, p + 1) = "/"
    THEN EndTag(t, p, NameEnd(t, p + 2), tag, text, children)
    ELSE IF At(t, p) = "<"
    THEN ContentAfterChild(t, tag, text, children, Element(t, p))
    ELSE IF At(t, p) = "&"
    THEN ContentAfterReference(t, tag, text, children, Reference(t, p))
    ELSE Content(t, p + 1, tag,
                 IF children = <<>> THEN Append(text, At(t, p)) ELSE text, children)

\* an element without text has text None
ElementClosed(tag, attrs, c) ==
    IF c.ok
    THEN [ok |-> TRUE, tag |-> tag, attrs |-> attrs,
          text |-> IF c.text = <<>> THEN NaN ELSE c.text,
          children |-> c.children, next |-> c.next]
    ELSE NotWellFormed

ElementOpened(t, tag, a) ==
    IF ~a.ok THEN NotWellFormed
    ELSE IF a.empty
    THEN [ok |-> TRUE, tag |-> tag, attrs |-> a.attrs, text |-> NaN,
          children |-> <<>>, next |-> a.next]
    ELSE ElementClosed(tag, a.attrs, Content(t, a.next, tag, <<>>, <<>>))

ElementNamed(t, p, e) ==
    IF e = p + 1 THEN NotWellFormed
    ELSE ElementOpened(t, SubSeq(t, p + 1, e - 1), Attributes(t, e, <<>>))

\* the element whose start tag begins with the < at p
Element(t, p) == ElementNamed(t, p, NameEnd(t, p + 1))

RootEnded(t, root) ==
    IF root.ok /\ SkipSpace(t, root.next) = Len(t) + 1 THEN root ELSE NotWellFormed

RootAt(t, p) ==
    IF At(t, p) = "<" THEN RootEnded(t, Element(t, p)) ELSE NotWellFormed

\* ET.parse(xml_file).getroot(): one element, with only white space around it
getroot(t) == RootAt(t, SkipSpace(t, 1))

\* string_element.get('name')
get(element, name) ==
    IF \E n \in DOMAIN element.attrs : element.attrs[n].name = name
    THEN element.attrs[CHOOSE n \in DOMAIN element.attrs :
                            element.attrs[n].name = name].value
    ELSE NaN

\* lines 190-193: one record per string element of the root
StringRecords(found) ==
    [n \in DOMAIN found |->
        [string_name |-> get(found[n], <<"n", "a", "m", "e">>),
         value |-> found[n].text]]

\* lines 191-193, unless the parse of line 188 raised
SheetOf(root) ==
    IF root.ok
    THEN [ok |-> TRUE,
          rows |-> StringRecords(
                     SelectSeq(root.children,
                               LAMBDA el : el.tag = <<"s", "t", "r", "i", "n", "g">>))]
    ELSE NotWellFormed

\* lines 188-193
xml_to_sheet(t) == SheetOf(getroot(t))

\* main, lines 52 and 60: the text downloaded for a language is uploaded
UploadXml ==
    /\ pc = "returned"
    /\ platform = "android"
    /\ \E lang \in Range(DictKeys(outputs)) :
        uploaded_file' = [suffix |-> "xml", text |-> DictGet(outputs, lang)]
    /\ pc' = "uploaded"
    /\ UNCHANGED <<inputVars, platform, genVars, k, data, sheet_data, ui>>

\* line 65: xml_to_sheet's records bound to sheet_data, or its ParseError
Converted(r) ==
    IF r.ok
    THEN /\ data' = r.rows
         /\ sheet_data' = [bound |-> TRUE, rows |-> r.rows]
         /\ pc' = "converted"
    ELSE /\ pc' = "conversion_raised"
         /\ UNCHANGED <<data, sheet_data>>

\* main, lines 62-65: the button, for an .xml file
ConvertXml ==
    /\ pc = "uploaded"
    /\ uploaded_file.suffix = "xml"
    /\ Converted(xml_to_sheet(uploaded_file.text))
    /\ UNCHANGED <<inputVars, platform, genVars, uploaded_file, k, ui>>

----------------------------------------------------------------------------
(* The inputs of generation *)

\* the translation sheet's columns: english_value first, as the docstrings
\* have it; second, as the uploader's label asks; or absent
Layouts ==
    { <<"english_value", "fr">>,
      <<"english_value", "fr", "de">>,
      <<"id", "english_value", "fr">>,
      <<"source", "fr">> }

\* the English texts of both sheets
EnglishValues == { <<"H", "i">>, <<"B">> }

\* the cells of column fr: empty, white space, a translation with a leading
\* space; column de is never filled in (a missing cell)
TranslationCells == { <<>>, <<" ">>, <<" ", "y">> }

CellsOf(column) ==
    CASE column \in {"english_value", "source"} -> EnglishValues
      [] column = "fr" -> TranslationCells
      [] column = "de" -> { NaN }
      [] OTHER -> { <<"7">> }

TranslationRowsOf(columns) ==
    { r \in [Range(columns) -> EnglishValues \cup TranslationCells \cup {NaN, <<"7">>}] :
        \A c \in Range(columns) : r[c] \in CellsOf(c) }

TranslationTables ==
    UNION { { [columns |-> cols, rows |-> rs] :
                rs \in UNION { [1..n -> TranslationRowsOf(cols)] : n \in 0..MaxTRows } } :
            cols \in Layouts }

\* string_name of row n
StringName(n) == <<"k", <<"a", "b", "c", "d">>[n]>>

AndroidTables ==
    UNION { { [n \in 1..len |-> [string_name |-> StringName(n),
                                 english_value |-> ev[n]]] :
                ev \in [1..len -> EnglishValues] } : len \in 1..MaxRows }

NoUpload ==
    /\ uploaded_file = [suffix |-> "", text |-> <<>>]
    /\ NotConverted

NoGeneration ==
    /\ platform = ""
    /\ languages = <<>>
    /\ li = 0
    /\ i = 0
    /\ output_lines = <<>>
    /\ outputs = <<>>
    /\ warnings = <<>>
    /\ st_warning = <<>>

\* The sheets are loaded; generate_android_xml and generate_ios_strings are
\* module-level functions, so the row range is whatever a caller passes: any
\* start inside the sheet, any end up to one past its last row (main's two
\* number inputs, lines 46-47, only offer the ranges of ValidRange).
Init ==
    /\ android_df \in AndroidTables
    /\ translation_df \in TranslationTables
    /\ start_row \in 0..(Len(android_df) - 1)
    /\ end_row \in 0..Len(android_df)
    /\ pc = "loaded"
    /\ NoGeneration
    /\ NoUpload

Next ==
    \/ Validate
    \/ generate_android_xml
    \/ generate_ios_strings
    \/ ForLang
    \/ ForRow
    \/ RowIndexError
    \/ EndLang
    \/ Return

Spec == Init /\ [][Next]_vars

----------------------------------------------------------------------------
(* The conversion of a .strings file *)

\* lines of an uploaded file: blank, a comment, well-formed entries (one with
\* white space around it), entries with a semicolon or quotes inside the
\* wrapping quotes, an entry whose value holds the separator, and a line
\* without separator
StringsLines ==
    { <<>>,
      <<" ">>,
      <<"/", "/", " ", "c">>,
      <<Quote, "H", Quote, " ", "=", " ", Quote, "S", Quote, ";">>,
      <<" ", Quote, "B", Quote, " ", "=", " ", Quote, "A", " ", "r", Quote, ";", " ">>,
      <<Quote, "W", Quote, " ", "=", " ", Quote, "a", ";", Quote, ";">>,
      <<Quote, Quote, "Q", Quote, Quote, " ", "=", " ", Quote, "q", Quote, ";">>,
      <<Quote, "E", Quote, " ", "=", " ", Quote, "1", " ", "=", " ", "1", Quote, ";">>,
      <<"b", "a", "d">> }

\* a file of the given lines, each ended by a line break except, when `open`,
\* the last
FileOf(lines, open) ==
    IF lines = <<>> THEN <<>>
    ELSE join(<<"\n">>, lines) \o (IF open THEN <<>> ELSE <<"\n">>)

StringsFiles ==
    { FileOf(lines, open) :
        lines \in UNION { [1..n -> StringsLines] : n \in 0..MaxLines },
        open \in BOOLEAN }

InitConvert ==
    /\ android_df = <<>>
    /\ translation_df = [columns |-> <<>>, rows |-> <<>>]
    /\ start_row = 0
    /\ end_row = 0
    /\ NoGeneration
    /\ uploaded_file \in { [suffix |-> "strings", text |-> t] : t \in StringsFiles }
    /\ NotConverted
    /\ pc = "uploaded"

NextConvert ==
    \/ ConvertStrings
    \/ ForLineIgnored
    \/ ForLineRecord
    \/ ForLineValueError
    \/ ReturnSheet
    \/ ShowSheet
    \/ ShowError

SpecConvert == InitConvert /\ [][NextConvert]_vars

----------------------------------------------------------------------------
(* The round trip: Android XML generated over the whole sheet, then converted *)

\* names and texts with and without the characters XML reserves; an English
\* text may be empty or missing
RoundTripNames == { <<"k">>, <<"k", Quote>> }

RoundTripEnglish == { <<"a">>, <<>>, NaN, <<"&">> }

RoundTripCells == { <<"b", " ">>, <<"<">>, <<>> }

RoundTripAndroidTables ==
    UNION { [1..len -> [string_name : RoundTripNames, english_value : RoundTripEnglish]] :
            len \in {1, 2} }

RoundTripTranslationTables ==
    { [columns |-> <<"english_value", "fr">>, rows |-> rs] :
        rs \in UNION { [1..n -> [english_value : {<<"a">>}, fr : RoundTripCells]] :
                       n \in {0, 1} } }

InitRoundTrip ==
    /\ android_df \in RoundTripAndroidTables
    /\ translation_df \in RoundTripTranslationTables
    /\ start_row = 0
    /\ end_row = Len(android_df) - 1
    /\ pc = "loaded"
    /\ NoGeneration
    /\ NoUpload

NextRoundTrip ==
    \/ Validate
    \/ generate_android_xml
    \/ ForLang
    \/ ForRow
    \/ EndLang
    \/ Return
    \/ UploadXml
    \/ ConvertXml
    \/ ShowSheet
    \/ ShowError

SpecRoundTrip == InitRoundTrip /\ [][NextRoundTrip]_vars

----------------------------------------------------------------------------
(* What the round trip property speaks of *)

Reserved == {"<", "&", Quote}

FreeOfReserved(v) == v = NaN \/ \A c \in Range(v) : c \notin Reserved

\* the value generation resolved for identifier row n (from 1) in lang
ResolvedValue(n, lang) == Resolve(translation_df, android_df[n].english_value, lang).value

\* C4 as stated: when no name and no resolved value holds <, & or ",
\* xml_to_sheet of the Android text of language L restores, in order, one
\* record per identifier row with the row's name and its resolved value.
C4_AndroidRoundTrip ==
    \A lang \in Range(languages) :
        ( /\ pc \in {"converted", "conversion_raised"}
          /\ uploaded_file = [suffix |-> "xml", text |-> DictGet(outputs, lang)]
          /\ \A n \in DOMAIN android_df :
                /\ FreeOfReserved(android_df[n].string_name)
                /\ FreeOfReserved(ResolvedValue(n, lang)) )
        => /\ pc = "converted"
           /\ sheet_data.rows =
                [n \in DOMAIN android_df |->
                    [string_name |-> android_df[n].string_name,
                     value |-> ResolvedValue(n, lang)]]

----------------------------------------------------------------------------
(* What the properties of strings_to_sheet speak of *)

\* the file's lines, without the white space around them
TrimmedLines ==
    LET lines == FileLines(uploaded_file.text)
    IN  [n \in DOMAIN lines |-> strip(lines[n], Whitespace)]

IsContent(line) ==
    line # <<>> /\ ~(Len(line) >= 2 /\ line[1] = "/" /\ line[2] = "/")

HasSeparator(line) == find(line, Separator, 1) # 0

KeyPart(line) == SubSeq(line, 1, find(line, Separator, 1) - 1)

ValuePart(line) ==
    SubSeq(line, find(line, Separator, 1) + Len(Separator), Len(line))

\* s without one layer of wrapping double quotes
Unwrapped(s) ==
    IF Len(s) >= 2 /\ s[1] = Quote /\ s[Len(s)] = Quote
    THEN SubSeq(s, 2, Len(s) - 1) ELSE s

\* s without one trailing semicolon
WithoutSemicolon(s) ==
    IF s # <<>> /\ s[Len(s)] = ";" THEN SubSeq(s, 1, Len(s) - 1) ELSE s

StringsToSheetEnded == pc \in {"converted", "conversion_raised"}

\* C8 as stated: on a file whose content lines (not blank, not a comment) all
\* contain the separator, strings_to_sheet returns one record per content line,
\* in file order: the key part less one layer of wrapping quotes, and the value
\* part less one trailing semicolon and its wrapping quotes.
C8_OneRecordPerContentLine ==
    LET content == SelectSeq(TrimmedLines, IsContent)
    IN  (StringsToSheetEnded /\ \A n \in DOMAIN content : HasSeparator(content[n])) =>
            /\ pc = "converted"
            /\ sheet_data.rows =
                [n \in DOMAIN content |->
                    [string_name |-> Unwrapped(KeyPart(content[n])),
                     value |-> Unwrapped(WithoutSemicolon(ValuePart(content[n])))]]

\* the first content line without a separator, 0 when there is none
FirstLineWithoutSeparator ==
    LET bad == { n \in DOMAIN TrimmedLines :
                    IsContent(TrimmedLines[n]) /\ ~HasSeparator(TrimmedLines[n]) }
    IN  IF bad = {} THEN 0 ELSE CHOOSE n \in bad : \A n2 \in bad : n <= n2

\* C9 as stated: strings_to_sheet raises at the first content line without a
\* separator: no later line is processed, nothing is returned to main, and
\* main shows the error instead of a download.
C9_AbortsAtFirstLineWithoutSeparator ==
    LET b == FirstLineWithoutSeparator
    IN  b # 0 =>
            /\ pc = "for_line" => k <= b
            /\ pc = "conversion_raised" => k = b
            /\ pc # "converted"
            /\ pc = "shown" => (k = b /\ ui = "error" /\ sheet_data = Unbound)

----------------------------------------------------------------------------
(* What the properties of generation speak of *)

Returned == pc = "returned"

\* the identifier rows the call processed
RowsInRange == { n \in start_row..end_row : n < Len(android_df) }

\* the translation rows whose english_value is that of identifier row n
Matching(n) ==
    { m \in DOMAIN translation_df.rows :
        translation_df.rows[m]["english_value"] = android_df[n + 1].english_value }

\* the first of them in table order
FirstMatch(n) == CHOOSE m \in Matching(n) : \A m2 \in Matching(n) : m <= m2

\* a cell that is missing, empty or only whitespace
Blank(cell) == cell = NaN \/ \A c \in Range(cell) : c \in Whitespace

Cell(m, lang) == translation_df.rows[m][lang]

\* the lines of the text generated for lang that are records
RecordLines(lang) ==
    LET lines == split(DictGet(outputs, lang), <<"\n">>)
    IN  IF platform = "android" THEN SubSeq(lines, 2, Len(lines) - 1) ELSE lines

\* the line that emits value v for identifier row n
LineWith(n, v) ==
    OutputLine(platform, android_df[n + 1].string_name,
               android_df[n + 1].english_value, v)

\* records, the record lines of a language: the line of row n emits v
Emits(records, n, v) == records[n - start_row + 1] = LineWith(n, v)

WarningsFor(n, lang) ==
    { w \in Range(warnings) :
        w.english_value = android_df[n + 1].english_value /\ w.lang = lang }

\* C1 as stated: whenever some translation row with r's english_value has a
\* non-blank cell for L, the value emitted for r in L is that cell's content
\* and nothing is warned for (r, L).
C1_AnyMatchingRow ==
    Returned =>
        \A lang \in Range(languages) :
            LET records == RecordLines(lang)
            IN  \A n \in RowsInRange, m \in DOMAIN translation_df.rows :
                    (m \in Matching(n) /\ ~Blank(Cell(m, lang))) =>
                        /\ Emits(records, n, Cell(m, lang))
                        /\ WarningsFor(n, lang) = {}

\* C1 amended: when the FIRST translation row with r's english_value has a
\* non-blank cell for L, the value emitted for r in L is that cell's content,
\* verbatim, and nothing is warned for (r, L).
C1_FirstMatchingRow ==
    Returned =>
        \A lang \in Range(languages) :
            LET records == RecordLines(lang)
            IN  \A n \in RowsInRange :
                    (Matching(n) # {} /\ ~Blank(Cell(FirstMatch(n), lang))) =>
                        /\ Emits(records, n, Cell(FirstMatch(n), lang))
                        /\ WarningsFor(n, lang) = {}

C1_Witness ==
    /\ Returned
    /\ \E lang \in Range(languages), n \in RowsInRange :
        /\ Cardinality(Matching(n)) >= 2
        /\ Cell(FirstMatch(n), lang) = <<" ", "y">>
        /\ Emits(RecordLines(lang), n, <<" ", "y">>)

\* C2: when no translation row has r's english_value, the value emitted for r
\* in L is r's english_value and a 'No translation found' warning naming r's
\* text and L is among the run's warnings, which are shown.
C2_NoTranslationFound ==
    Returned =>
        \A lang \in Range(languages) :
            LET records == RecordLines(lang)
            IN  \A n \in RowsInRange :
                    Matching(n) = {} =>
                        /\ Emits(records, n, android_df[n + 1].english_value)
                        /\ \E w \in WarningsFor(n, lang) : w.kind = "No translation found"
                        /\ st_warning = warnings

C2_Witness ==
    /\ Returned
    /\ translation_df.rows # <<>>
    /\ \E lang \in Range(languages), n \in RowsInRange :
        /\ Matching(n) = {}
        /\ Emits(RecordLines(lang), n, android_df[n + 1].english_value)
        /\ \E w \in Range(st_warning) :
            w.kind = "No translation found" /\ w.lang = lang

\* C3: when the translation row found for r's english_value has a missing,
\* empty or whitespace-only cell for L, the value emitted for r in L is r's
\* english_value and an 'Empty translation' warning, and no 'No translation
\* found' warning, is recorded for (r, L).
C3_EmptyTranslation ==
    Returned =>
        \A lang \in Range(languages) :
            LET records == RecordLines(lang)
            IN  \A n \in RowsInRange :
                    (Matching(n) # {} /\ Blank(Cell(FirstMatch(n), lang))) =>
                        /\ Emits(records, n, android_df[n + 1].english_value)
                        /\ \E w \in WarningsFor(n, lang) : w.kind = "Empty translation"
                        /\ \A w \in WarningsFor(n, lang) : w.kind # "No translation found"

C3_Witness ==
    /\ Returned
    /\ \A cell \in {NaN, <<>>, <<" ">>} :
        \E lang \in Range(languages), n \in RowsInRange :
            /\ Matching(n) # {}
            /\ Cell(FirstMatch(n), lang) = cell
            /\ Emits(RecordLines(lang), n, android_df[n + 1].english_value)
            /\ \E w \in WarningsFor(n, lang) : w.kind = "Empty translation"

\* C5 as stated: a call with start_row > end_row does not return an output
\* mapping (it ends in an error).
C5_StartAfterEndRejected == ~(Returned /\ start_row > end_row)

\* main, lines 46-47: the ranges the two number inputs offer
ValidRange == 0 <= start_row /\ start_row <= end_row /\ end_row <= Len(android_df) - 1

\* C6: for a valid range, the text of every language holds exactly
\* end_row - start_row + 1 records, the j-th being that of identifier row
\* start_row + j - 1, whether or not rows fell back to the English text.
C6_OneRecordPerRow ==
    (Returned /\ ValidRange) =>
        \A lang \in Range(languages) :
            LET records == RecordLines(lang)
            IN  /\ Len(records) = end_row - start_row + 1
                /\ \A j \in 1..Len(records) :
                    \E v \in EnglishValues \cup TranslationCells :
                        records[j] = LineWith(start_row + j - 1, v)

C6_Witness ==
    /\ Returned
    /\ ValidRange
    /\ start_row < end_row
    /\ warnings # <<>>
    /\ \E lang \in Range(languages) : Len(RecordLines(lang)) = end_row - start_row + 1

\* C7 as stated: the mapping returned has one entry per column other than
\* english_value, in column order, and english_value is never a key.
C7_KeysAreOtherColumns ==
    Returned =>
        DictKeys(outputs) =
            SelectSeq(translation_df.columns, LAMBDA c : c # "english_value")

\* C10: when several translation rows have r's english_value, the first in
\* table order alone decides what is emitted for r in L: its cell when that is
\* not blank, else r's english_value with an 'Empty translation' warning.
C10_FirstDuplicateDecides ==
    Returned =>
        \A lang \in Range(languages) :
            LET records == RecordLines(lang)
            IN  \A n \in RowsInRange :
                    Cardinality(Matching(n)) >= 2 =>
                        LET cell == Cell(FirstMatch(n), lang)
                        IN  IF Blank(cell)
                            THEN /\ Emits(records, n, android_df[n + 1].english_value)
                                 /\ \A w \in WarningsFor(n, lang) :
                                        w.kind = "Empty translation"
                                 /\ WarningsFor(n, lang) # {}
                            ELSE /\ Emits(records, n, cell)
                                 /\ WarningsFor(n, lang) = {}

C10_Witness ==
    /\ Returned
    /\ \E lang \in Range(languages), n \in RowsInRange :
        /\ Cardinality(Matching(n)) >= 2
        /\ Blank(Cell(FirstMatch(n), lang))
        /\ \E m \in Matching(n) : ~Blank(Cell(m, lang))
        /\ Emits(RecordLines(lang), n, android_df[n + 1].english_value)

====
